---- MODULE Spec2Model ----
(***************************************************************************)
(* Model of spelf (src/src/main.rs): an interactive fuzzy finder over the  *)
(* lines of a word file.  main() loads the dictionary, registers a SIGINT  *)
(* flag, puts the terminal in raw/alternate-screen mode and then loops:    *)
(* check the running flag, rank every word by Levenshtein distance to the  *)
(* query, draw, poll one input event.                                      *)
(*                                                                         *)
(* Strings are sequences of one-character strings.  Option<String> is a    *)
(* sequence of length 0 (None) or 1 (Some).                                *)
(***************************************************************************)
EXTENDS Integers, Sequences, FiniteSets

(***************************************************************************)
(* Bounds                                                                  *)
(***************************************************************************)
\* longest file content, in characters
MaxFileLen == 4
\* longest query the user types
MaxQuery == 2
\* largest index and longest list the clamp step is tried on
MaxClampIndex == 11
MaxClampLen == 7

\* characters that occur in the file
FileChars == {"a", "c", "\n"}
\* characters typed without a modifier
TypedChars == {"a", "c"}
\* characters typed with Control held
CtrlChars == {"a", "c", "d", "z", "p", "n"}

RECURSIVE SeqsUpTo(_, _)
SeqsUpTo(S, n) ==
  IF n = 0 THEN {<<>>}
  ELSE LET shorter == SeqsUpTo(S, n - 1)
       IN  shorter \cup {Append(s, x) : s \in {t \in shorter : Len(t) = n - 1}, x \in S}

FileContents == SeqsUpTo(FileChars, MaxFileLen)

(***************************************************************************)
(* Input events (crossterm::event::Event)                                  *)
(***************************************************************************)
Key(code, ch, ctrl) == [kind |-> "Key", code |-> code, ch |-> ch, ctrl |-> ctrl]
Resize == [kind |-> "Resize", code |-> "", ch |-> "", ctrl |-> FALSE]
\* mouse, focus, paste: every event that is neither a key nor a resize
OtherEvent == [kind |-> "Other", code |-> "", ch |-> "", ctrl |-> FALSE]
\* event::poll returned false within 100 ms
Timeout == [kind |-> "Timeout", code |-> "", ch |-> "", ctrl |-> FALSE]
\* no event interpreted yet in this cycle
NoEvent == [kind |-> "None", code |-> "", ch |-> "", ctrl |-> FALSE]

\* key codes other than Char; "F" stands for every code the match does not name
PlainCodes == {"Esc", "Up", "Down", "Enter", "Backspace", "F"}

Events ==
  {Key(c, "", m) : c \in PlainCodes, m \in BOOLEAN}
    \cup {Key("Char", ch, FALSE) : ch \in TypedChars}
    \cup {Key("Char", ch, TRUE) : ch \in CtrlChars}
    \cup {Resize, OtherEvent}

(***************************************************************************)
(* Pure functions                                                          *)
(***************************************************************************)
Min(a, b) == IF a <= b THEN a ELSE b

\* usize::saturating_sub
saturating_sub(a, b) == IF a >= b THEN a - b ELSE 0

\* index of the first "\n" in s, 0 when there is none
RECURSIVE FirstNewline(_, _)
FirstNewline(s, i) ==
  IF i > Len(s) THEN 0
  ELSE IF s[i] = "\n" THEN i ELSE FirstNewline(s, i + 1)

\* a line loses one trailing carriage return
StripCr(l) ==
  IF Len(l) > 0 /\ l[Len(l)] = "\r" THEN SubSeq(l, 1, Len(l) - 1) ELSE l

\* str::lines: split at "\n"; no line is produced after a final "\n"
RECURSIVE lines(_)
lines(s) ==
  IF s = <<>> THEN <<>>
  ELSE LET i == FirstNewline(s, 1)
       IN  IF i = 0 THEN <<StripCr(s)>>
           ELSE <<StripCr(SubSeq(s, 1, i - 1))>> \o lines(SubSeq(s, i + 1, Len(s)))

\* levenshtein with a wrong base case: an empty first string is at distance 0
RECURSIVE levenshteinEmptyIsZero(_, _)
levenshteinEmptyIsZero(a, b) ==
  IF Len(a) = 0 THEN 0
  ELSE IF Len(b) = 0 THEN Len(a)
  ELSE Min(Min(levenshteinEmptyIsZero(Tail(a), b) + 1,
               levenshteinEmptyIsZero(a, Tail(b)) + 1),
           levenshteinEmptyIsZero(Tail(a), Tail(b))
             + (IF Head(a) = Head(b) THEN 0 ELSE 1))

\* strsim::levenshtein: insertions, deletions and substitutions of characters
RECURSIVE levenshtein(_, _)
levenshtein(a, b) ==
  IF Len(a) = 0 THEN Len(b)
  ELSE IF Len(b) = 0 THEN Len(a)
  ELSE Min(Min(levenshtein(Tail(a), b) + 1, levenshtein(a, Tail(b)) + 1),
           levenshtein(Tail(a), Tail(b)) + (IF Head(a) = Head(b) THEN 0 ELSE 1))

\* Scored with a filter: only words no farther than the query is long
ScoredClose(q, d) ==
  LET Close(w) == levenshtein(q, w) <= Len(q)
      kept == SelectSeq(d, Close)
  IN  [i \in 1..Len(kept) |-> <<kept[i], levenshtein(q, kept[i])>>]

\* dict.iter().map(|w| (w, levenshtein(&query, w))).collect()
Scored(q, d) == [i \in 1..Len(d) |-> <<d[i], levenshtein(q, d[i])>>]

\* Insert that puts x in front of the elements with its own key
InsertBeforeTies(sorted, x) ==
  LET k == Cardinality({i \in 1..Len(sorted) : sorted[i][2] < x[2]})
  IN  SubSeq(sorted, 1, k) \o <<x>> \o SubSeq(sorted, k + 1, Len(sorted))

\* one step of a stable sort: x goes behind every element whose key is <= its own
Insert(sorted, x) ==
  LET k == Cardinality({i \in 1..Len(sorted) : sorted[i][2] <= x[2]})
  IN  SubSeq(sorted, 1, k) \o <<x>> \o SubSeq(sorted, k + 1, Len(sorted))

\* slice::sort_by_key(|(_, d)| *d): a stable sort by the distance
RECURSIVE sort_by_key(_)
sort_by_key(s) ==
  IF s = <<>> THEN <<>>
  ELSE Insert(sort_by_key(SubSeq(s, 1, Len(s) - 1)), s[Len(s)])

\* matches.iter().map(|(w, _)| (*w).clone()).collect()
Words(m) == [i \in 1..Len(m) |-> m[i][1]]

\* the ranked list of one cycle
Rank(q, d) == Words(sort_by_key(Scored(q, d)))

(***************************************************************************)
(* State                                                                   *)
(***************************************************************************)
VARIABLES
  pc,               \* where main() is
  file,             \* /usr/share/dict/words: [readable, content]
  dict,             \* Vec<String> loaded at startup
  registered,       \* the SIGINT action is installed
  running,          \* the AtomicBool shared with the signal action
  rawMode,          \* the terminal is in raw mode
  altScreen,        \* the terminal shows the alternate screen
  query,            \* main's query
  selected_index,   \* main's selected_index
  filtered_matches, \* the ranked list of the current cycle
  selected_word,    \* what handle_input returned: None or Some(word)
  ev,               \* the event handle_input interpreted last; none once a new cycle begins
  stdout,           \* the lines written to standard output
  stderr,           \* something was written to standard error
  exit_code,        \* -1 while the process runs
  sigint            \* history: a SIGINT arrived while the loop ran

vars == <<pc, file, dict, registered, running, rawMode, altScreen, query,
          selected_index, filtered_matches, selected_word, ev, stdout, stderr,
          exit_code, sigint>>

term == <<rawMode, altScreen>>
loopVars == <<query, selected_index, filtered_matches, selected_word, ev>>
history == <<sigint>>

Init ==
  /\ pc = "load"
  /\ file \in ({[readable |-> TRUE, content |-> c] : c \in FileContents}
               \cup {[readable |-> FALSE, content |-> <<>>]})
  /\ dict = <<>>
  /\ registered = FALSE
  /\ running = TRUE
  /\ rawMode = FALSE
  /\ altScreen = FALSE
  /\ query = <<>>
  /\ selected_index = 0
  /\ filtered_matches = <<>>
  /\ selected_word = <<>>
  /\ ev = NoEvent
  /\ stdout = <<>>
  /\ stderr = FALSE
  /\ exit_code = -1
  /\ sigint = "none"

\* the process ends with status c; a non-zero status comes with a message
\* on standard error (eprintln!, a panic message, or main's returned Err)
Exit(c) ==
  /\ pc' = "exited"
  /\ exit_code' = c
  /\ stderr' = (stderr \/ c # 0)

(***************************************************************************)
(* Startup                                                                 *)
(***************************************************************************)
\* LoadDictionary with unwrap_or_default in place of the exit
LoadDictionaryOrEmpty ==
  /\ pc = "load"
  /\ dict' = IF file.readable THEN lines(file.content) ELSE <<>>
  /\ pc' = "signal"
  /\ UNCHANGED <<file, registered, running, term, loopVars, stdout, stderr,
                 exit_code, history>>

LoadDictionary ==
  /\ pc = "load"
  /\ IF file.readable
       THEN /\ dict' = lines(file.content)
            /\ pc' = "signal"
            /\ UNCHANGED <<stderr, exit_code>>
       ELSE /\ Exit(1)
            /\ UNCHANGED dict
  /\ UNCHANGED <<file, registered, running, term, loopVars, stdout, history>>

\* Arc::new(AtomicBool::new(true)), then flag::register(SIGINT, r).expect(..)
SetupSignalHandling ==
  /\ pc = "signal"
  /\ running' = TRUE
  /\ \/ /\ registered' = TRUE
        /\ pc' = "setup"
        /\ UNCHANGED <<stderr, exit_code>>
     \/ /\ Exit(101)
        /\ UNCHANGED registered
  /\ UNCHANGED <<file, dict, term, loopVars, stdout, history>>

\* enable_raw_mode()?; execute!(stdout, EnterAlternateScreen)?; Terminal::new(backend)?
SetupTerminal ==
  /\ pc = "setup"
  /\ \/ /\ Exit(1)
        /\ UNCHANGED term
     \/ /\ rawMode' = TRUE
        /\ Exit(1)
        /\ UNCHANGED altScreen
     \/ /\ rawMode' = TRUE
        /\ altScreen' = TRUE
        /\ Exit(1)
     \/ /\ rawMode' = TRUE
        /\ altScreen' = TRUE
        /\ pc' = "check"
        /\ UNCHANGED <<stderr, exit_code>>
  /\ UNCHANGED <<file, dict, registered, running, loopVars, stdout, history>>

\* signal_hook::flag::register(SIGINT, r): on delivery the registered action
\* stores true into the flag it was given
SignalAction ==
  /\ registered
  /\ pc # "exited"
  /\ running' = TRUE
  /\ sigint' = IF pc \in {"check", "rank", "poll"} /\ sigint = "none"
                 THEN "pending" ELSE sigint
  /\ UNCHANGED <<pc, file, dict, registered, term, loopVars, stdout, stderr,
                 exit_code>>

(***************************************************************************)
(* The session loop                                                        *)
(***************************************************************************)
\* if !running.load(Ordering::Relaxed) { break; }
LoopCheck ==
  /\ pc = "check"
  /\ pc' = IF running THEN "rank" ELSE "cancelled"
  /\ ev' = IF running THEN NoEvent ELSE ev
  /\ UNCHANGED <<file, dict, registered, running, term, query, selected_index,
                 filtered_matches, selected_word, stdout, stderr, exit_code,
                 history>>

\* RankAndDraw that keeps the list of the cycle before once it has one
RankAndDrawStale ==
  /\ pc = "rank"
  /\ filtered_matches' = IF filtered_matches = <<>> THEN Rank(query, dict)
                         ELSE filtered_matches
  /\ \/ /\ pc' = "poll"
        /\ UNCHANGED <<stderr, exit_code>>
     \/ Exit(1)
  /\ UNCHANGED <<file, dict, registered, running, term, query, selected_index,
                 selected_word, ev, stdout, history>>

\* rank every word of the dictionary against the query, then draw_ui(..)?
RankAndDraw ==
  /\ pc = "rank"
  /\ filtered_matches' = Rank(query, dict)
  /\ \/ /\ pc' = "poll"
        /\ UNCHANGED <<stderr, exit_code>>
     \/ Exit(1)
  /\ UNCHANGED <<file, dict, registered, running, term, query, selected_index,
                 selected_word, ev, stdout, history>>

\* IsQuit that also takes Enter for a quit key
IsQuitOrEnter(e) ==
  /\ e.kind = "Key"
  /\ \/ e.code \in {"Esc", "Enter"}
     \/ e.code = "Char" /\ e.ch \in {"c", "d", "z"} /\ e.ctrl

\* the arms of handle_input's match, in the order the match tries them
IsQuit(e) ==
  /\ e.kind = "Key"
  /\ \/ e.code = "Esc"
     \/ e.code = "Char" /\ e.ch \in {"c", "d", "z"} /\ e.ctrl

IsUp(e) ==
  /\ e.kind = "Key"
  /\ ~IsQuit(e)
  /\ \/ e.code = "Up"
     \/ e.code = "Char" /\ e.ch = "p" /\ e.ctrl

IsDown(e) ==
  /\ e.kind = "Key"
  /\ ~IsQuit(e)
  /\ \/ e.code = "Down"
     \/ e.code = "Char" /\ e.ch = "n" /\ e.ctrl

IsEnter(e) == e.kind = "Key" /\ e.code = "Enter"

\* KeyCode::Char(c) without a guard: every Char the arms above let through
IsChar(e) ==
  /\ e.kind = "Key"
  /\ e.code = "Char"
  /\ ~IsQuit(e) /\ ~IsUp(e) /\ ~IsDown(e)

IsBackspace(e) == e.kind = "Key" /\ e.code = "Backspace"

\* MoveUp without the floor
MoveUpUnchecked(i) == i - 1

\* if *selected_index > 0 { *selected_index -= 1; }
MoveUp(i) == IF i > 0 THEN i - 1 ELSE i

\* MoveDown without the ceiling
MoveDownUnbounded(i, n) == i + 1

\* if *selected_index < filtered_matches.len().saturating_sub(1) { *selected_index += 1; }
MoveDown(i, n) == IF i < saturating_sub(n, 1) THEN i + 1 ELSE i

\* Clamp that steps down by one instead of taking the minimum
ClampByOne(i, n) == IF i > saturating_sub(n, 1) THEN i - 1 ELSE i

\* Clamp that sends the index back to the top of the list
ClampReset(i, n) == 0

\* (*selected_index).min(filtered_matches.len().saturating_sub(1))
Clamp(i, n) == Min(i, saturating_sub(n, 1))

\* String::pop
Pop(q) == IF q = <<>> THEN q ELSE SubSeq(q, 1, Len(q) - 1)

\* Selected that ignores the index
SelectedFirst(list, i) == list[1]

\* filtered_matches[*selected_index].clone(), with Rust's 0-based index
Selected(list, i) == list[i + 1]

\* what handle_input does with event e (Timeout: poll returned false)
Interpret(e) ==
  /\ ev' = e
  /\ sigint' = IF sigint = "none" THEN "none"
               ELSE IF e = Timeout THEN "polled" ELSE "none"
  /\ IF IsQuit(e) THEN
       /\ running' = FALSE
       /\ pc' = "check"
       /\ UNCHANGED <<query, selected_index, selected_word>>
     ELSE IF IsUp(e) THEN
       /\ selected_index' = MoveUp(selected_index)
       /\ pc' = "check"
       /\ UNCHANGED <<running, query, selected_word>>
     ELSE IF IsDown(e) THEN
       /\ selected_index' = MoveDown(selected_index, Len(filtered_matches))
       /\ pc' = "check"
       /\ UNCHANGED <<running, query, selected_word>>
     ELSE IF IsEnter(e) /\ filtered_matches # <<>> THEN
       /\ selected_word' = <<Selected(filtered_matches, selected_index)>>
       /\ pc' = "confirmed"
       /\ UNCHANGED <<running, query, selected_index>>
     ELSE IF IsChar(e) THEN
       /\ Len(query) < MaxQuery
       /\ query' = Append(query, e.ch)
       /\ selected_index' = Clamp(selected_index, Len(filtered_matches))
       /\ pc' = "check"
       /\ UNCHANGED <<running, selected_word>>
     ELSE IF IsBackspace(e) THEN
       /\ query' = Pop(query)
       /\ selected_index' = Clamp(selected_index, Len(filtered_matches))
       /\ pc' = "check"
       /\ UNCHANGED <<running, selected_word>>
     ELSE
       /\ pc' = "check"
       /\ UNCHANGED <<running, query, selected_index, selected_word>>

\* event::poll(100 ms)? then event::read()?; either may return an error,
\* which main's `?` turns into the process's exit
HandleInput ==
  /\ pc = "poll"
  /\ \/ /\ \E e \in Events \cup {Timeout} : Interpret(e)
        /\ UNCHANGED <<stderr, exit_code>>
     \/ /\ Exit(1)
        /\ UNCHANGED <<running, query, selected_index, selected_word, ev, history>>
  /\ UNCHANGED <<file, dict, registered, term, filtered_matches, stdout>>

(***************************************************************************)
(* Leaving the loop                                                        *)
(***************************************************************************)
\* disable_raw_mode()?; execute!(.., LeaveAlternateScreen)?; terminal.show_cursor()?
\* called at line 188 after a confirmed selection and at line 195 after break
CleanupTerminal ==
  /\ pc \in {"confirmed", "cancelled"}
  /\ \/ /\ Exit(1)
        /\ UNCHANGED term
     \/ /\ rawMode' = FALSE
        /\ Exit(1)
        /\ UNCHANGED altScreen
     \/ /\ rawMode' = FALSE
        /\ altScreen' = FALSE
        /\ Exit(1)
     \/ /\ rawMode' = FALSE
        /\ altScreen' = FALSE
        /\ IF pc = "confirmed"
             THEN /\ pc' = "print"
                  /\ UNCHANGED <<stderr, exit_code>>
             ELSE Exit(0)
  /\ UNCHANGED <<file, dict, registered, running, loopVars, stdout, history>>

\* PrintSelection with lines 188 and 189 in the other order: the word is
\* written first, the terminal is restored afterwards
PrintSelectionBeforeCleanup ==
  /\ pc = "confirmed"
  /\ stdout = <<>>
  /\ stdout' = Append(stdout, selected_word[1])
  /\ pc' = "cancelled"
  /\ UNCHANGED <<file, dict, registered, running, term, loopVars, stderr,
                 exit_code, history>>

\* println!("{}", selected_word); io::stdout().flush().unwrap(); return Ok(())
\* println! panics when standard output cannot be written
PrintSelection ==
  /\ pc = "print"
  /\ \/ /\ stdout' = Append(stdout, selected_word[1])
        /\ Exit(0)
     \/ /\ Exit(101)
        /\ UNCHANGED stdout
  /\ UNCHANGED <<file, dict, registered, running, term, loopVars, history>>

Next ==
  \/ LoadDictionary
  \/ SetupSignalHandling
  \/ SetupTerminal
  \/ SignalAction
  \/ LoopCheck
  \/ RankAndDraw
  \/ HandleInput
  \/ CleanupTerminal
  \/ PrintSelection

Spec == Init /\ [][Next]_vars

(***************************************************************************)
(* The clamp step on its own: an index and a list length drawn from the    *)
(* bounds, the clamp of lines 148 and 152 applied twice                    *)
(***************************************************************************)
ClampInit ==
  /\ pc = "clamp0"
  /\ selected_index \in 0..MaxClampIndex
  /\ filtered_matches \in {[i \in 1..n |-> <<"a">>] : n \in 0..MaxClampLen}
  /\ file = [readable |-> TRUE, content |-> <<>>]
  /\ dict = <<>>
  /\ registered = TRUE
  /\ running = TRUE
  /\ rawMode = TRUE
  /\ altScreen = TRUE
  /\ query = <<>>
  /\ selected_word = <<>>
  /\ ev = NoEvent
  /\ stdout = <<>>
  /\ stderr = FALSE
  /\ exit_code = -1
  /\ sigint = "none"

\* *selected_index = (*selected_index).min(filtered_matches.len().saturating_sub(1))
ClampStep ==
  /\ pc \in {"clamp0", "clamp1"}
  /\ selected_index' = Clamp(selected_index, Len(filtered_matches))
  /\ pc' = IF pc = "clamp0" THEN "clamp1" ELSE "clamp2"
  /\ UNCHANGED <<file, dict, registered, running, term, query,
                 filtered_matches, selected_word, ev, stdout, stderr,
                 exit_code, history>>

ClampNext == ClampStep

ClampSpec == ClampInit /\ [][ClampNext]_vars

TypeOK ==
  /\ pc \in {"load", "signal", "setup", "check", "rank", "poll", "confirmed",
             "cancelled", "print", "exited"}
  /\ running \in BOOLEAN /\ registered \in BOOLEAN
  /\ rawMode \in BOOLEAN /\ altScreen \in BOOLEAN
  /\ Len(query) <= MaxQuery
  /\ selected_index \in Nat
  /\ Len(selected_word) <= 1
  /\ exit_code \in {-1, 0, 1, 101}
  /\ sigint \in {"none", "pending", "polled"}

(***************************************************************************)
(* Properties                                                              *)
(***************************************************************************)
\* number of positions of s that hold w
Count(s, w) == Cardinality({i \in 1..Len(s) : s[i] = w})

Range(s) == {s[i] : i \in 1..Len(s)}

\* handle_input returned Some(word): the loop was left with a payload
ConfirmedExit == selected_word # <<>>

\* C1: a SIGINT delivered while the loop runs makes the Running Flag false,
\* and after one poll that timed out the loop no longer ranks or polls;
\* no selection is emitted.
C1_SigintCancelsLoop ==
  sigint # "none" =>
    /\ running = FALSE
    /\ selected_word = <<>>
    /\ stdout = <<>>
    /\ (sigint = "polled" => pc \notin {"rank", "poll"})

\* C2: once Enter has been interpreted on a non-empty ranked list the loop
\* is left with a payload, and the payload (and whatever reaches standard
\* output) is the element at selected_index of the ranking of dict for the
\* query as it stands.
C2_ConfirmEmitsSelected ==
  /\ (IsEnter(ev) /\ dict # <<>>) =>
        LET ranked == Rank(query, dict)
        IN  /\ ranked # <<>>
            /\ pc \in {"confirmed", "print", "exited"}
            /\ selected_index < Len(ranked)
            /\ selected_word = <<ranked[selected_index + 1]>>
            /\ stdout \in {<<>>, selected_word}
  /\ ConfirmedExit => IsEnter(ev) /\ dict # <<>>
  /\ stdout # <<>> => ConfirmedExit

\* a selection that is neither the first ranked word nor the word at the
\* same position of the unranked dictionary has been printed
C2_Witness ==
  /\ pc = "exited"
  /\ stdout # <<>>
  /\ query # <<>>
  /\ selected_index > 0
  /\ stdout[1] # dict[selected_index + 1]
  /\ stdout[1] # Rank(query, dict)[1]

\* C3: after a quit key the Running Flag is false, the loop neither ranks
\* nor polls again, nothing is selected or written, and the process ends
\* with status 0.
C3_QuitCancels ==
  IsQuit(ev) =>
    /\ running = FALSE
    /\ pc \in {"check", "cancelled", "exited"}
    /\ selected_word = <<>>
    /\ stdout = <<>>
    /\ (pc = "exited" => exit_code = 0)

\* C4: when the process has ended, the terminal is neither in raw mode nor
\* on the alternate screen.
C4_TerminalRestoredOnExit == pc = "exited" => ~rawMode /\ ~altScreen

\* C5 as stated: a confirmed selection is written exactly once, only after
\* teardown has completed, and without a selection nothing is written.
C5_WrittenOnceAfterTeardown ==
  /\ Len(stdout) <= 1
  /\ stdout # <<>> => ~rawMode /\ ~altScreen /\ stdout = selected_word
  /\ (pc = "exited" /\ ConfirmedExit) => Len(stdout) = 1
  /\ ~ConfirmedExit => stdout = <<>>

\* C5 amended: the selection is written at most once and only after
\* teardown has completed; a process that ends after a confirmed selection
\* has written it exactly once when it ends with status 0, and not at all
\* when teardown returned an error (status 1) or the write panicked
\* (status 101); without a selection nothing is written.
C5_WrittenOnceIfTeardownSucceeds ==
  /\ Len(stdout) <= 1
  /\ stdout # <<>> => ~rawMode /\ ~altScreen /\ stdout = selected_word
  /\ (pc = "exited" /\ ConfirmedExit) =>
        \/ exit_code = 0 /\ stdout = selected_word
        \/ exit_code \in {1, 101} /\ stdout = <<>>
  /\ (pc = "print") => ~rawMode /\ ~altScreen /\ stdout = <<>>
  /\ ~ConfirmedExit => stdout = <<>>

\* a confirmed selection was written after a completed teardown
C5_Witness ==
  /\ pc = "exited"
  /\ ConfirmedExit
  /\ exit_code = 0
  /\ stdout = selected_word
  /\ ~rawMode /\ ~altScreen

\* C6: in every state selected_index is 0 when the ranked list of the cycle
\* is empty and a position of that list otherwise; the list of a cycle is as
\* long as the dictionary, so an edit of the query never shortens it.
C6_IndexInRange ==
  LET n == Len(filtered_matches)
  IN  /\ selected_index >= 0
      /\ IF n = 0 THEN selected_index = 0 ELSE selected_index <= n - 1
      /\ pc \in {"poll", "check", "confirmed", "cancelled", "print"}
           => n \in {0, Len(dict)}
      /\ pc = "poll" => n = Len(dict)

\* Down was pressed with the index already at the last of several positions
C6_Witness ==
  /\ pc = "check"
  /\ IsDown(ev)
  /\ Len(dict) >= 3
  /\ selected_index = Len(dict) - 1
  /\ query # <<>>

\* C7: the ranked list computed in a cycle holds every word as often as the
\* dictionary does, and is empty only when the dictionary is.
C7_RankIsPermutation ==
  pc = "poll" =>
    /\ Len(filtered_matches) = Len(dict)
    /\ \A w \in Range(dict) \cup Range(filtered_matches) :
          Count(filtered_matches, w) = Count(dict, w)
    /\ (filtered_matches = <<>> <=> dict = <<>>)

\* a dictionary with a repeated word was re-ordered
C7_Witness ==
  /\ pc = "poll"
  /\ filtered_matches # dict
  /\ \E i, j \in 1..Len(dict) : i < j /\ dict[i] = dict[j]
  /\ \E w \in Range(dict) : levenshtein(query, w) > Len(query)

\* C8: the ranked list is in non-decreasing distance to the query, and the
\* words at each distance are in the order the dictionary has them.
C8_SortedStable ==
  pc = "poll" =>
    /\ \A i \in 1..(Len(filtered_matches) - 1) :
          levenshtein(query, filtered_matches[i])
            <= levenshtein(query, filtered_matches[i + 1])
    /\ \A k \in {levenshtein(query, w) : w \in Range(dict) \cup Range(filtered_matches)} :
          LET AtK(w) == levenshtein(query, w) = k
          IN  SelectSeq(filtered_matches, AtK) = SelectSeq(dict, AtK)

\* two different words tie and the ranking moved a word in front of them
C8_Witness ==
  /\ pc = "poll"
  /\ query # <<>>
  /\ filtered_matches # dict
  /\ \E i, j \in 1..Len(filtered_matches) :
        /\ i < j
        /\ filtered_matches[i] # filtered_matches[j]
        /\ levenshtein(query, filtered_matches[i])
             = levenshtein(query, filtered_matches[j])

\* C9 as stated: with an empty query the ranked list is the dictionary in
\* load order.
C9_EmptyQueryKeepsLoadOrder ==
  (pc = "poll" /\ query = <<>>) => filtered_matches = dict

\* C9 amended: with an empty query the ranked list is the dictionary sorted
\* by word length, words of one length in load order; it is the dictionary
\* itself when the lengths are already non-decreasing.
C9_EmptyQuerySortsByLength ==
  (pc = "poll" /\ query = <<>>) =>
    /\ \A i, j \in 1..Len(filtered_matches) :
          i < j => Len(filtered_matches[i]) <= Len(filtered_matches[j])
    /\ \A k \in 0..MaxFileLen :
          LET OfLenK(w) == Len(w) = k
          IN  SelectSeq(filtered_matches, OfLenK) = SelectSeq(dict, OfLenK)
    /\ (\A i, j \in 1..Len(dict) : i < j => Len(dict[i]) <= Len(dict[j]))
          => filtered_matches = dict

\* an empty query re-ordered a dictionary whose longer word came first
C9_Witness ==
  /\ pc = "poll"
  /\ query = <<>>
  /\ filtered_matches # dict
  /\ Len(dict) >= 2

\* C10: with an unreadable word file the process never leaves startup
\* except by exiting with a non-zero status and a message on standard
\* error; the terminal is never touched, no list is ranked, nothing is
\* written to standard output.
C10_UnreadableSourceFailsFast ==
  ~file.readable =>
    /\ pc \in {"load", "exited"}
    /\ ~registered
    /\ ~rawMode /\ ~altScreen
    /\ filtered_matches = <<>> /\ ev = NoEvent
    /\ stdout = <<>>
    /\ (pc = "exited" => exit_code = 1 /\ stderr)

C10_Witness == ~file.readable /\ pc = "exited" /\ exit_code = 1 /\ stderr

\* C11: once loaded, the dictionary is exactly the non-empty lines of the
\* file in file order; the empty string is never a candidate, never in the
\* ranked list and never written by a confirmed selection.
C11_OnlyNonEmptyLines ==
  (file.readable /\ pc # "load") =>
    LET NonEmpty(l) == l # <<>>
    IN  /\ dict = SelectSeq(lines(file.content), NonEmpty)
        /\ <<>> \notin Range(dict)
        /\ <<>> \notin Range(filtered_matches)
        /\ selected_word # <<<<>>>>
        /\ <<>> \notin Range(stdout)

\* a step of handle_input that interpreted an event (or a timeout): at the
\* poll no event of the cycle has been interpreted yet
Interpreted(e) == pc = "poll" /\ ev = NoEvent /\ ev' = e

\* C12: Enter on an empty ranked list changes nothing: the loop goes on to
\* its next cycle, nothing is selected or written, and query, selected_index
\* and the Running Flag keep their values.
C12_ConfirmOnEmptyIsNoOp ==
  [][\A m \in BOOLEAN :
       (Interpreted(Key("Enter", "", m)) /\ filtered_matches = <<>>) =>
         /\ pc' = "check"
         /\ UNCHANGED <<query, selected_index, running, selected_word, stdout,
                        exit_code>>]_vars

\* Enter was interpreted on an empty list and the loop is still running
C12_Witness ==
  /\ pc = "check"
  /\ IsEnter(ev)
  /\ filtered_matches = <<>>
  /\ running
  /\ selected_word = <<>>

\* the events C13 names as no-ops: a resize, a timeout, an event that is not
\* a key, a key code the match does not name, and a control-modified
\* character other than c, d, z, p, n
ClaimedNoOp(e) ==
  \/ e \in {Resize, Timeout, OtherEvent}
  \/ e.kind = "Key" /\ e.code = "F"
  \/ e.kind = "Key" /\ e.code = "Char" /\ e.ctrl
       /\ e.ch \notin {"c", "d", "z", "p", "n"}

\* C13: an event C13 names as a no-op leaves query, selected_index and the
\* Running Flag unchanged, raises no error and sends the loop to its next
\* cycle.
C13_OtherEventsAreNoOps ==
  [][\A e \in Events \cup {Timeout} :
       (Interpreted(e) /\ ClaimedNoOp(e)) =>
         /\ pc' = "check"
         /\ UNCHANGED <<query, selected_index, running, selected_word,
                        exit_code>>]_vars

\* C14: the Running Flag is true once setup_signal_handling has run, and no
\* step turns a false flag true again.
C14_RunningFlagMonotonic ==
  [][(pc = "signal" => running') /\ (~running => ~running')]_vars

\* the keys of Navigate(up) and Navigate(down)
UpKeys == {Key("Up", "", m) : m \in BOOLEAN} \cup {Key("Char", "p", TRUE)}
DownKeys == {Key("Down", "", m) : m \in BOOLEAN} \cup {Key("Char", "n", TRUE)}

\* C15: Up and Ctrl-P take 1 from selected_index when it is above 0 and
\* leave it at 0; Down and Ctrl-N add 1 when it is below the last position
\* of the cycle's list and leave it otherwise (also on an empty list); none
\* of them changes the query.
C15_NavigationSaturates ==
  [][\A e \in UpKeys \cup DownKeys :
       Interpreted(e) =>
         LET n == Len(filtered_matches)
         IN  /\ pc' = "check"
             /\ UNCHANGED <<query, running, selected_word>>
             /\ e \in UpKeys =>
                  selected_index' = IF selected_index > 0
                                      THEN selected_index - 1 ELSE 0
             /\ e \in DownKeys =>
                  selected_index' = IF n > 0 /\ selected_index < n - 1
                                      THEN selected_index + 1
                                      ELSE selected_index]_vars

\* Ctrl-P moved the index from the third position to the second
C15_Witness ==
  /\ pc = "check"
  /\ ev = Key("Char", "p", TRUE)
  /\ selected_index = 1
  /\ Len(filtered_matches) >= 3
  /\ query # <<>>

\* C16: an edit of the query after which the ranked list is as long as
\* before leaves selected_index where it was, and selected_index changes
\* only in a step that interprets a navigation key.
C16_EditKeepsIndex ==
  [][/\ \A e \in Events :
          (Interpreted(e) /\ (IsChar(e) \/ IsBackspace(e))
             /\ Len(Rank(query', dict)) = Len(filtered_matches))
            => selected_index' = selected_index
     /\ selected_index' # selected_index =>
          \E e \in UpKeys \cup DownKeys : Interpreted(e)]_vars

\* a character was appended with the index at the third position or below
C16_Witness ==
  /\ pc = "check"
  /\ IsChar(ev)
  /\ ~ev.ctrl
  /\ query # <<>>
  /\ selected_index >= 2

\* the events that edit the query according to C17
PrintableKeys == {Key("Char", ch, FALSE) : ch \in TypedChars}
BackspaceKeys == {Key("Backspace", "", m) : m \in BOOLEAN}

\* C17: the query is empty until the loop runs; a printable character is
\* appended, Backspace removes the last character and leaves an empty query
\* empty, and no other step changes the query.
C17_QueryEditedAtEndOnly ==
  [][/\ pc \in {"load", "signal", "setup"} => query = <<>>
     /\ \A e \in PrintableKeys : Interpreted(e) => query' = Append(query, e.ch)
     /\ \A e \in BackspaceKeys :
          Interpreted(e) =>
            query' = IF query = <<>> THEN <<>>
                     ELSE SubSeq(query, 1, Len(query) - 1)
     /\ query' # query =>
          \E e \in PrintableKeys \cup BackspaceKeys : Interpreted(e)]_vars

\* C18: the second of two clamp steps with the same list length leaves the
\* index the first one gave, whatever the index and the length were; the
\* index the first one gave is min(index, max(0, length - 1)).
C18_ClampIdempotent ==
  [][/\ pc = "clamp1" => selected_index' = selected_index
     /\ pc = "clamp0" =>
          selected_index' =
            LET n == Len(filtered_matches)
                last == IF n = 0 THEN 0 ELSE n - 1
            IN  IF selected_index <= last THEN selected_index ELSE last]_vars

\* the clamp was applied twice, on an empty list and on the longest one
C18_Witness ==
  /\ pc = "clamp2"
  /\ \/ filtered_matches = <<>> /\ selected_index = 0
     \/ Len(filtered_matches) = MaxClampLen /\ selected_index = MaxClampLen - 1

\* C19: what draw_ui is given is consistent: the list is the ranking of the
\* whole dictionary for the query that is displayed, in non-decreasing
\* distance to it, and selected_index is a position of the list when the
\* list is not empty.
C19_RenderConsistent ==
  pc = "poll" =>
    /\ filtered_matches = Rank(query, dict)
    /\ Len(filtered_matches) = Len(dict)
    /\ \A i \in 1..(Len(filtered_matches) - 1) :
          levenshtein(query, filtered_matches[i])
            <= levenshtein(query, filtered_matches[i + 1])
    /\ filtered_matches # <<>> =>
          selected_index \in 0..(Len(filtered_matches) - 1)

\* a frame was drawn for an edited query that re-ordered the dictionary,
\* with the highlight below the first row
C19_Witness ==
  /\ pc = "poll"
  /\ query # <<>>
  /\ filtered_matches # dict
  /\ filtered_matches # Rank(<<>>, dict)
  /\ selected_index > 0

====
